---- MODULE Spec2Model ----
(***************************************************************************)
(* A model of the release-notes action: run() of src/index.js, one action  *)
(* per continuation between two awaits, and the run() of the older entry   *)
(* point kept in src/unnamed/part_001 (the Legacy actions).                *)
(*                                                                         *)
(* Text is modelled as a sequence of tokens [k, n]: k names the piece of   *)
(* text (a JSON key, a rule of the instruction), n is the number it        *)
(* carries (a commit message id, a PR number), 0 when it carries none.     *)
(***************************************************************************)
EXTENDS Integers, Sequences, FiniteSets, TLC

\* Bound: the number of commits the pull request can hold.
MaxCommits == 2

Shas == 1..MaxCommits

\* JavaScript's undefined / null, where the code can observe one.
Null == "undefined"

Tok(k, n) == [k |-> k, n |-> n]

RECURSIVE Flatten(_)
Flatten(ss) == IF Len(ss) = 0 THEN <<>> ELSE Head(ss) \o Flatten(Tail(ss))

SelectSeqK(toks, k) == SelectSeq(toks, LAMBDA t : t.k = k)

Range(s) == {s[i] : i \in 1..Len(s)}

\* Injective sequences over S: a pull request lists a commit once.
InjSeqs(S) ==
  {s \in UNION {[1..n -> S] : n \in 0..Cardinality(S)} :
     \A i, j \in 1..Len(s) : i # j => s[i] # s[j]}

(***************************************************************************)
(* The environment: inputs and what the remote services can answer.        *)
(***************************************************************************)
\* getInput returns strings: "" when the input is absent.
InputStrings == {"", "false", "true"}
EventNames == {"pull_request", "push"}
language == "en"

\* The commit the hosting API returns for a SHA (message, author ids).
ApiCommit(s) ==
  [sha |-> s, message |-> 100 + s, authorName |-> 200 + (s % 2), authorUrl |-> 300 + (s % 2)]

CommitLists == {[i \in 1..Len(q) |-> ApiCommit(q[i])] : q \in InjSeqs(Shas)}

\* The pull requests the hosting API can associate with a commit.
ApiPR(n) == [number |-> n, html_url |-> n]
PRResponses(s) == {<<>>, <<ApiPR(10 * s)>>, <<ApiPR(10 * s), ApiPR(10 * s + 1)>>}

ErrorMessages == {"Not Found", ""}
Tags == {"v0"}
NoteBodies == {0, 1}
Contents == {"## Features", "", Null}
Completions ==
  {[present |-> FALSE, choices |-> <<>>], [present |-> TRUE, choices |-> <<>>]}
    \cup {[present |-> TRUE, choices |-> <<[content |-> c]>>] : c \in Contents}

(***************************************************************************)
(* Pure pieces of src/index.js.                                            *)
(***************************************************************************)
\* if (x) on a string: the empty string is the only falsy one.
Truthy(s) == s # ""

\* getPRsFromCommit: pr.data.map(p => ({label: `#${p.number}`, url: p.html_url}))
getPRsFromCommit(data) ==
  [i \in 1..Len(data) |-> [label |-> data[i].number, url |-> data[i].html_url]]

\* JSON.stringify of one PR reference and of one commit record.
JsonPR(p) == <<Tok("label:#", p.label), Tok("url:", p.url)>>

JsonCommitNoAuthor(r) ==
  <<Tok("{", 0), Tok("message:", r.message), Tok("authorUrl:", r.authorUrl), Tok("prs:[", 0)>>
    \o Flatten([i \in 1..Len(r.prs) |-> JsonPR(r.prs[i])])
    \o <<Tok("]", 0), Tok("}", 0)>>

JsonCommit(r) ==
  <<Tok("{", 0), Tok("message:", r.message), Tok("author:", r.author),
    Tok("authorUrl:", r.authorUrl), Tok("prs:[", 0)>>
    \o Flatten([i \in 1..Len(r.prs) |-> JsonPR(r.prs[i])])
    \o <<Tok("]", 0), Tok("}", 0)>>

JsonCommitData(cd) ==
  <<Tok("[", 0)>> \o Flatten([i \in 1..Len(cd) |-> JsonCommit(cd[i])]) \o <<Tok("]", 0)>>

CommitsContext(cd) ==
  <<Tok("Use the following commits data to write the release notes", 0)>> \o JsonCommitData(cd)

NotesContext(body) ==
  <<Tok("Use the following notes to write the release notes", 0), Tok("json-string", body)>>

\* The system prompt: the rule on mentions depends on useMentionCommitsPrs.
Prompt(mention) ==
  <<Tok("Your task is write release notes", 0),
    IF Truthy(mention) THEN Tok("mention commits or PRs when possible", 0)
                       ELSE Tok("do not mention commits or PRs", 0),
    Tok("do not add a mention to the user", 0),
    Tok("useful information", 0), Tok("clear and concise", 0),
    Tok("group as features and fixes", 0), Tok("features first", 0),
    Tok("language:" \o language, 0),
    Tok("friendly and professional", 0), Tok("without add up", 0),
    Tok("user friendly", 0), Tok("markdown", 0),
    Tok("structure: ## Features / ## Fixes", 0)>>

SetFailedMessage(msg) ==
  <<"Error in run function: ", IF msg # "" THEN msg ELSE "Failed to run the action">>

(***************************************************************************)
(* State.                                                                  *)
(***************************************************************************)
VARIABLES
  eventName,                \* context.eventName
  useGithubGeneratedNotes,  \* getInput("use-github-generated-notes")
  useMentionCommitsPrs,     \* getInput("use-mention-commits-prs")
  pc,                       \* the await run() is suspended at, or how it ended
  status,                   \* each single external call: idle, pending, resolved, rejected
  commits,                  \* commits.data
  lookup,                   \* per SHA: the getPRsFromCommit promise
  arrival,                  \* the SHAs in the order their lookups were fulfilled
  previousVersion,          \* previousVersion?.data?.tag_name
  genRequest,               \* previous_tag_name of the generateReleaseNotes request
  userPromptContext,        \* the user message
  sent,                     \* the messages of the completion request
  completion,               \* what the completion service resolved with
  release,                  \* body of the createRelease request
  released,                 \* createRelease resolved: the release exists
  calls,                    \* every external call, in the order issued
  infos,                    \* info() log
  failures,                 \* setFailed() reports
  error                     \* message of the error that ended the run

inputs == <<eventName, useGithubGeneratedNotes, useMentionCommitsPrs>>
vars == <<eventName, useGithubGeneratedNotes, useMentionCommitsPrs, pc, status, commits,
          lookup, arrival, previousVersion, genRequest, userPromptContext, sent,
          completion, release, released, calls, infos, failures, error>>

Apis == {"listCommits", "getLatestRelease", "generateReleaseNotes", "completion", "createRelease"}
LookupApi == "listPullRequestsAssociatedWithCommit"

Init ==
  /\ eventName \in EventNames
  /\ useGithubGeneratedNotes \in InputStrings
  /\ useMentionCommitsPrs \in InputStrings
  /\ pc = "start"
  /\ status = [a \in Apis |-> "idle"]
  /\ commits = <<>>
  /\ lookup = [s \in Shas |-> [state |-> "idle", prs |-> <<>>]]
  /\ arrival = <<>>
  /\ previousVersion = Null
  /\ genRequest = <<>>
  /\ userPromptContext = <<>>
  /\ sent = <<>>
  /\ completion = <<>>
  /\ release = <<>>
  /\ released = FALSE
  /\ calls = <<>>
  /\ infos = <<>>
  /\ failures = <<>>
  /\ error = "none"

ShasOf(cs) == {cs[i].sha : i \in 1..Len(cs)}

(***************************************************************************)
(* How a throw ends run(): outside the try block the promise run() returns *)
(* is rejected, and run() is called without a handler; inside the try      *)
(* block the catch reports it with setFailed and run() returns.            *)
(***************************************************************************)
Uncaught(msg) ==
  /\ error' = msg
  /\ pc' = "rejected"
  /\ UNCHANGED failures

Caught(msg) ==
  /\ error' = msg
  /\ failures' = Append(failures, SetFailedMessage(msg))
  /\ pc' = "returned"

\* Lines 146-181: build the prompt and call the completion service.
BuildAndSend(ctx) ==
  /\ userPromptContext' = ctx
  /\ sent' = <<[system |-> Prompt(useMentionCommitsPrs), user |-> ctx]>>
  /\ calls' = Append(calls, <<"completion", 0>>)
  /\ pc' = "completion"

\* if (useGithubGeneratedNotes)
SelectsGithubNotes == Truthy(useGithubGeneratedNotes)

(***************************************************************************)
(* run(), up to the first await.                                           *)
(***************************************************************************)
Start ==
  /\ pc = "start"
  /\ infos' = Append(infos, "Running ai release notes action")
  /\ IF eventName # "pull_request"
       THEN /\ Uncaught("This action can only be run on pull requests")
            /\ UNCHANGED <<calls, status>>
       ELSE /\ calls' = Append(calls, <<"listCommits", 0>>)
            /\ status' = [status EXCEPT !["listCommits"] = "pending"]
            /\ pc' = "listCommits"
            /\ UNCHANGED <<error, failures>>
  /\ UNCHANGED <<inputs, commits, lookup, arrival, previousVersion, genRequest,
                 userPromptContext, sent, completion, release, released>>

ListCommitsReject(msg) ==
  /\ pc = "listCommits"
  /\ status' = [status EXCEPT !["listCommits"] = "rejected"]
  /\ Uncaught(msg)
  /\ UNCHANGED <<inputs, commits, lookup, arrival, previousVersion, genRequest,
                 userPromptContext, sent, completion, release, released, calls, infos>>

\* Lines 87-139: the length check, then the branch on useGithubGeneratedNotes up
\* to its first await. commits.data.map calls every callback before the await
\* of Promise.all, so every lookup is issued here, in list order.
ListCommitsResolve(data) ==
  /\ pc = "listCommits"
  /\ commits' = data
  /\ IF Len(data) = 0
       THEN /\ status' = [status EXCEPT !["listCommits"] = "resolved"]
            /\ Uncaught("No commits found in the pull request")
            /\ UNCHANGED <<lookup, calls, infos>>
       ELSE /\ UNCHANGED <<error, failures>>
            /\ IF SelectsGithubNotes
                 THEN /\ infos' = infos \o <<"OpenAI key", "Using context from Github Notes">>
                      /\ status' = [status EXCEPT !["listCommits"] = "resolved",
                                                  !["getLatestRelease"] = "pending"]
                      /\ calls' = Append(calls, <<"getLatestRelease", 0>>)
                      /\ pc' = "getLatestRelease"
                      /\ UNCHANGED lookup
                 ELSE /\ infos' = infos \o <<"OpenAI key", "Using context from Commits">>
                      /\ status' = [status EXCEPT !["listCommits"] = "resolved"]
                      /\ lookup' = [s \in Shas |->
                                      IF s \in ShasOf(data)
                                        THEN [state |-> "pending", prs |-> <<>>]
                                        ELSE lookup[s]]
                      /\ calls' = calls \o [i \in 1..Len(data) |-> <<LookupApi, data[i].sha>>]
                      /\ pc' = "lookups"
  /\ UNCHANGED <<inputs, arrival, previousVersion, genRequest, userPromptContext, sent,
                 completion, release, released>>

(***************************************************************************)
(* The GeneratedNotes branch (lines 106-130).                              *)
(***************************************************************************)
\* The inner try: getLatestRelease resolved, generateReleaseNotes is requested
\* between that tag and the target commit.
GetLatestReleaseResolve(tag) ==
  /\ pc = "getLatestRelease"
  /\ previousVersion' = tag
  /\ genRequest' = <<tag>>
  /\ status' = [status EXCEPT !["getLatestRelease"] = "resolved",
                              !["generateReleaseNotes"] = "pending"]
  /\ calls' = Append(calls, <<"generateReleaseNotes", 0>>)
  /\ pc' = "generateReleaseNotes"
  /\ UNCHANGED <<inputs, commits, lookup, arrival, userPromptContext, sent, completion,
                 release, released, infos, failures, error>>

\* The inner catch logs and falls through: previousVersion stays undefined and
\* generateReleaseNotes is requested with previous_tag_name undefined.
GetLatestReleaseReject(msg) ==
  /\ pc = "getLatestRelease"
  /\ infos' = Append(infos, "No previous version found")
  /\ genRequest' = <<previousVersion>>
  /\ status' = [status EXCEPT !["getLatestRelease"] = "rejected",
                              !["generateReleaseNotes"] = "pending"]
  /\ calls' = Append(calls, <<"generateReleaseNotes", 0>>)
  /\ pc' = "generateReleaseNotes"
  /\ UNCHANGED <<inputs, commits, lookup, arrival, previousVersion, userPromptContext, sent,
                 completion, release, released, failures, error>>

GenerateNotesResolve(body) ==
  /\ pc = "generateReleaseNotes"
  /\ status' = [status EXCEPT !["generateReleaseNotes"] = "resolved",
                              !["completion"] = "pending"]
  /\ BuildAndSend(NotesContext(body))
  /\ UNCHANGED <<inputs, commits, lookup, arrival, previousVersion, genRequest, completion,
                 release, released, infos, failures, error>>

\* The outer catch of the branch logs; userPromptContext keeps its initial "".
GenerateNotesReject(msg) ==
  /\ pc = "generateReleaseNotes"
  /\ infos' = Append(infos, "Failed to generate github notes")
  /\ status' = [status EXCEPT !["generateReleaseNotes"] = "rejected",
                              !["completion"] = "pending"]
  /\ BuildAndSend(userPromptContext)
  /\ UNCHANGED <<inputs, commits, lookup, arrival, previousVersion, genRequest, completion,
                 release, released, failures, error>>

(***************************************************************************)
(* The Commits branch (lines 132-143): Promise.all over the lookups.       *)
(***************************************************************************)
Fulfilled(lk, cs) == \A i \in 1..Len(cs) : lk[cs[i].sha].state = "resolved"

\* Promise.all resolves once every promise of the list is fulfilled.
PromiseAllResolves(lk, cs) == Fulfilled(lk, cs)

PromiseAllNeverRejects(lk, cs) == FALSE

\* Promise.all rejects as soon as one promise of the list is rejected.
PromiseAllRejects(lk, cs) == \E i \in 1..Len(cs) : lk[cs[i].sha].state = "rejected"

\* The record the map callback builds for commit c.
CommitRecord(c, prs) ==
  [message |-> c.message, author |-> c.authorName, authorUrl |-> c.authorUrl, prs |-> prs]

CommitDataByArrival(cs, lk, arr) ==
  [i \in 1..Len(arr) |->
     CommitRecord((CHOOSE c \in Range(cs) : c.sha = arr[i]), lk[arr[i]].prs)]

\* Promise.all's value: one record per commit, at the commit's index in the list.
CommitData(cs, lk, arr) == [i \in 1..Len(cs) |-> CommitRecord(cs[i], lk[cs[i].sha].prs)]

\* A lookup answers. When it is the last one Promise.all waits for, run()
\* resumes: commitData is serialized and the completion service is called.
LookupResolve(s, data) ==
  /\ lookup[s].state = "pending"
  /\ lookup' = [lookup EXCEPT ![s] = [state |-> "resolved", prs |-> getPRsFromCommit(data)]]
  /\ arrival' = Append(arrival, s)
  /\ IF pc = "lookups" /\ PromiseAllResolves(lookup', commits)
       THEN /\ BuildAndSend(CommitsContext(CommitData(commits, lookup', arrival')))
            /\ status' = [status EXCEPT !["completion"] = "pending"]
       ELSE UNCHANGED <<userPromptContext, sent, calls, pc, status>>
  /\ UNCHANGED <<inputs, commits, previousVersion, genRequest, completion, release,
                 released, infos, failures, error>>

\* A lookup fails. The first failure rejects Promise.all, the catch reports it;
\* the other lookups stay in flight and their answers are dropped.
LookupReject(s, msg) ==
  /\ lookup[s].state = "pending"
  /\ lookup' = [lookup EXCEPT ![s] = [state |-> "rejected", prs |-> <<>>]]
  /\ IF pc = "lookups" /\ PromiseAllRejects(lookup', commits)
       THEN Caught(msg)
       ELSE UNCHANGED <<pc, failures, error>>
  /\ UNCHANGED <<inputs, status, commits, arrival, previousVersion, genRequest,
                 userPromptContext, sent, completion, release, released, calls, infos>>

(***************************************************************************)
(* The completion and the release (lines 169-201).                         *)
(***************************************************************************)
\* completion.choices[0].message.content
ResponseOf(c) == IF Len(c.choices) > 0 THEN c.choices[1].content ELSE Null

CompletionOutcomeUnguarded(c) ==
  IF c.present /\ Len(c.choices) = 0 THEN "TypeError" ELSE "createRelease"

\* if (completion) { ... choices[0].message.content ... createRelease } else throw
CompletionOutcome(c) ==
  IF c.present
    THEN IF Len(c.choices) = 0 THEN "TypeError" ELSE "createRelease"
    ELSE "Failed to generate release notes"

CompletionResolve(c) ==
  /\ pc = "completion"
  /\ completion' = <<c>>
  /\ IF CompletionOutcome(c) = "createRelease"
       THEN /\ release' = <<ResponseOf(c)>>
            /\ status' = [status EXCEPT !["completion"] = "resolved",
                                        !["createRelease"] = "pending"]
            /\ calls' = Append(calls, <<"createRelease", 0>>)
            /\ pc' = "createRelease"
            /\ UNCHANGED <<failures, error>>
       ELSE /\ status' = [status EXCEPT !["completion"] = "resolved"]
            /\ Caught(CompletionOutcome(c))
            /\ UNCHANGED <<release, calls>>
  /\ UNCHANGED <<inputs, commits, lookup, arrival, previousVersion, genRequest,
                 userPromptContext, sent, released, infos>>

CompletionReject(msg) ==
  /\ pc = "completion"
  /\ status' = [status EXCEPT !["completion"] = "rejected"]
  /\ Caught(msg)
  /\ UNCHANGED <<inputs, commits, lookup, arrival, previousVersion, genRequest,
                 userPromptContext, sent, completion, release, released, calls, infos>>

CreateReleaseResolve ==
  /\ pc = "createRelease"
  /\ status' = [status EXCEPT !["createRelease"] = "resolved"]
  /\ released' = TRUE
  /\ pc' = "returned"
  /\ UNCHANGED <<inputs, commits, lookup, arrival, previousVersion, genRequest,
                 userPromptContext, sent, completion, release, calls, infos, failures, error>>

CreateReleaseReject(msg) ==
  /\ pc = "createRelease"
  /\ status' = [status EXCEPT !["createRelease"] = "rejected"]
  /\ Caught(msg)
  /\ UNCHANGED <<inputs, commits, lookup, arrival, previousVersion, genRequest,
                 userPromptContext, sent, completion, release, released, calls, infos>>

Next ==
  \/ Start
  \/ \E data \in CommitLists : ListCommitsResolve(data)
  \/ \E msg \in ErrorMessages : ListCommitsReject(msg)
  \/ \E tag \in Tags : GetLatestReleaseResolve(tag)
  \/ \E msg \in ErrorMessages : GetLatestReleaseReject(msg)
  \/ \E body \in NoteBodies : GenerateNotesResolve(body)
  \/ \E msg \in ErrorMessages : GenerateNotesReject(msg)
  \/ \E s \in Shas : \E data \in PRResponses(s) : LookupResolve(s, data)
  \/ \E s \in Shas : \E msg \in ErrorMessages : LookupReject(s, msg)
  \/ \E c \in Completions : CompletionResolve(c)
  \/ \E msg \in ErrorMessages : CompletionReject(msg)
  \/ CreateReleaseResolve
  \/ \E msg \in ErrorMessages : CreateReleaseReject(msg)

Spec == Init /\ [][Next]_vars

\* Every external call eventually returns or fails.
FairSpec == Spec /\ WF_vars(Next)

(***************************************************************************)
(* The older entry point, src/unnamed/part_001. Its run() begins like the  *)
(* one above (Start, ListCommitsReject); it differs in the notes branch,   *)
(* which has a single try block, in the prompt, which always embeds the    *)
(* commits and is sent as one user message, and in the lookups, whose      *)
(* promises it never awaits.                                               *)
(***************************************************************************)
LegacySetFailedMessage(msg) == IF msg # "" THEN msg ELSE "Failed to run the action"

LegacyCaught(msg) ==
  /\ error' = msg
  /\ failures' = Append(failures, <<LegacySetFailedMessage(msg)>>)
  /\ pc' = "returned"

\* JSON.stringify of a record whose prs is a pending promise: "prs": {}.
LegacyJsonCommit(c) ==
  <<Tok("{", 0), Tok("message:", c.message), Tok("author:", c.authorName),
    Tok("authorUrl:", c.authorUrl), Tok("prs:{}", 0), Tok("}", 0)>>

LegacyPrompt(cs, notesContext) ==
  <<Tok("You are a DEV OPS engineer", 0), Tok("structure: ## What's Changed", 0),
    Tok("Do not ask for more information", 0),
    Tok("Use only the following commits data to write the changelog", 0), Tok("[", 0)>>
    \o Flatten([i \in 1..Len(cs) |-> LegacyJsonCommit(cs[i])])
    \o <<Tok("]", 0)>> \o notesContext \o <<Tok("language:" \o language, 0)>>

LegacyNotesContext(body) ==
  <<Tok("For more context use Github auto generated log", 0), Tok("json-notes", body)>>

\* Lines 117-152: the map calls getPRsFromCommit for every commit, which issues
\* the lookups; the prompt is built at once and the completion service called.
LegacyBuildAndSend(cs, notesContext) ==
  /\ userPromptContext' = notesContext
  /\ lookup' = [s \in Shas |->
                  IF s \in ShasOf(cs) THEN [state |-> "pending", prs |-> <<>>] ELSE lookup[s]]
  /\ sent' = <<[system |-> <<>>, user |-> LegacyPrompt(cs, notesContext)]>>
  /\ calls' = (calls \o [i \in 1..Len(cs) |-> <<LookupApi, cs[i].sha>>])
                \o <<<<"completion", 0>>>>
  /\ pc' = "completion"

LegacyListCommitsResolve(data) ==
  /\ pc = "listCommits"
  /\ commits' = data
  /\ IF Len(data) = 0
       THEN /\ status' = [status EXCEPT !["listCommits"] = "resolved"]
            /\ Uncaught("No commits found in the pull request")
            /\ UNCHANGED <<lookup, calls, userPromptContext, sent>>
       ELSE /\ UNCHANGED <<error, failures>>
            /\ IF SelectsGithubNotes
                 THEN /\ status' = [status EXCEPT !["listCommits"] = "resolved",
                                                  !["getLatestRelease"] = "pending"]
                      /\ calls' = Append(calls, <<"getLatestRelease", 0>>)
                      /\ pc' = "getLatestRelease"
                      /\ UNCHANGED <<lookup, userPromptContext, sent>>
                 ELSE /\ status' = [status EXCEPT !["listCommits"] = "resolved",
                                                  !["completion"] = "pending"]
                      /\ LegacyBuildAndSend(data, <<>>)
  /\ infos' = IF Len(data) = 0 THEN infos ELSE Append(infos, "OpenAI key")
  /\ UNCHANGED <<inputs, arrival, previousVersion, genRequest, completion, release, released>>

\* previous_tag_name is given the whole response, not its tag name.
LegacyGetLatestReleaseResolve(tag) ==
  /\ pc = "getLatestRelease"
  /\ previousVersion' = tag
  /\ genRequest' = <<"[object Object]">>
  /\ status' = [status EXCEPT !["getLatestRelease"] = "resolved",
                              !["generateReleaseNotes"] = "pending"]
  /\ calls' = Append(calls, <<"generateReleaseNotes", 0>>)
  /\ pc' = "generateReleaseNotes"
  /\ UNCHANGED <<inputs, commits, lookup, arrival, userPromptContext, sent, completion,
                 release, released, infos, failures, error>>

\* The single catch of the branch: a failed getLatestRelease skips
\* generateReleaseNotes.
LegacyGetLatestReleaseReject(msg) ==
  /\ pc = "getLatestRelease"
  /\ infos' = Append(infos, "Failed to generate github notes")
  /\ status' = [status EXCEPT !["getLatestRelease"] = "rejected",
                              !["completion"] = "pending"]
  /\ LegacyBuildAndSend(commits, userPromptContext)
  /\ UNCHANGED <<inputs, commits, arrival, previousVersion, genRequest, completion,
                 release, released, failures, error>>

LegacyGenerateNotesResolve(body) ==
  /\ pc = "generateReleaseNotes"
  /\ status' = [status EXCEPT !["generateReleaseNotes"] = "resolved",
                              !["completion"] = "pending"]
  /\ LegacyBuildAndSend(commits, LegacyNotesContext(body))
  /\ UNCHANGED <<inputs, commits, arrival, previousVersion, genRequest, completion,
                 release, released, infos, failures, error>>

LegacyGenerateNotesReject(msg) ==
  /\ pc = "generateReleaseNotes"
  /\ infos' = Append(infos, "Failed to generate github notes")
  /\ status' = [status EXCEPT !["generateReleaseNotes"] = "rejected",
                              !["completion"] = "pending"]
  /\ LegacyBuildAndSend(commits, userPromptContext)
  /\ UNCHANGED <<inputs, commits, arrival, previousVersion, genRequest, completion,
                 release, released, failures, error>>

\* The answer of a lookup nobody awaits is dropped.
LegacyLookupResolve(s, data) ==
  /\ lookup[s].state = "pending"
  /\ pc # "rejected"
  /\ lookup' = [lookup EXCEPT ![s] = [state |-> "resolved", prs |-> getPRsFromCommit(data)]]
  /\ arrival' = Append(arrival, s)
  /\ UNCHANGED <<inputs, pc, status, commits, previousVersion, genRequest, userPromptContext,
                 sent, completion, release, released, calls, infos, failures, error>>

\* The failure of a lookup nobody awaits is an unhandled rejection: the node20
\* runtime ends the process with it.
LegacyLookupReject(s, msg) ==
  /\ lookup[s].state = "pending"
  /\ pc # "rejected"
  /\ lookup' = [lookup EXCEPT ![s] = [state |-> "rejected", prs |-> <<>>]]
  /\ Uncaught(msg)
  /\ UNCHANGED <<inputs, status, commits, arrival, previousVersion, genRequest,
                 userPromptContext, sent, completion, release, released, calls, infos>>

LegacyCompletionResolve(c) ==
  /\ pc = "completion"
  /\ completion' = <<c>>
  /\ IF CompletionOutcome(c) = "createRelease"
       THEN /\ release' = <<ResponseOf(c)>>
            /\ status' = [status EXCEPT !["completion"] = "resolved",
                                        !["createRelease"] = "pending"]
            /\ calls' = Append(calls, <<"createRelease", 0>>)
            /\ pc' = "createRelease"
            /\ UNCHANGED <<failures, error>>
       ELSE /\ status' = [status EXCEPT !["completion"] = "resolved"]
            /\ LegacyCaught(CompletionOutcome(c))
            /\ UNCHANGED <<release, calls>>
  /\ UNCHANGED <<inputs, commits, lookup, arrival, previousVersion, genRequest,
                 userPromptContext, sent, released, infos>>

LegacyCompletionReject(msg) ==
  /\ pc = "completion"
  /\ status' = [status EXCEPT !["completion"] = "rejected"]
  /\ LegacyCaught(msg)
  /\ UNCHANGED <<inputs, commits, lookup, arrival, previousVersion, genRequest,
                 userPromptContext, sent, completion, release, released, calls, infos>>

LegacyCreateReleaseReject(msg) ==
  /\ pc = "createRelease"
  /\ status' = [status EXCEPT !["createRelease"] = "rejected"]
  /\ LegacyCaught(msg)
  /\ UNCHANGED <<inputs, commits, lookup, arrival, previousVersion, genRequest,
                 userPromptContext, sent, completion, release, released, calls, infos>>

NextLegacy ==
  \/ Start
  \/ \E data \in CommitLists : LegacyListCommitsResolve(data)
  \/ \E msg \in ErrorMessages : ListCommitsReject(msg)
  \/ \E tag \in Tags : LegacyGetLatestReleaseResolve(tag)
  \/ \E msg \in ErrorMessages : LegacyGetLatestReleaseReject(msg)
  \/ \E body \in NoteBodies : LegacyGenerateNotesResolve(body)
  \/ \E msg \in ErrorMessages : LegacyGenerateNotesReject(msg)
  \/ \E s \in Shas : \E data \in PRResponses(s) : LegacyLookupResolve(s, data)
  \/ \E s \in Shas : \E msg \in ErrorMessages : LegacyLookupReject(s, msg)
  \/ \E c \in Completions : LegacyCompletionResolve(c)
  \/ \E msg \in ErrorMessages : LegacyCompletionReject(msg)
  \/ CreateReleaseResolve
  \/ \E msg \in ErrorMessages : LegacyCreateReleaseReject(msg)

SpecLegacy == Init /\ [][NextLegacy]_vars

(***************************************************************************)
(* Observations the properties are stated with.                            *)
(***************************************************************************)
Called(api) == \E i \in 1..Len(calls) : calls[i][1] = api
CallCount(api, k) == Cardinality({i \in 1..Len(calls) : calls[i] = <<api, k>>})
Ended == pc \in {"returned", "rejected"}
NoCommitsMessage == "No commits found in the pull request"
Logged(line) == line \in Range(infos)

\* The text the completion service receives: instruction, then context.
Rendered == sent[1].system \o sent[1].user
IsPRMarker(tok) == tok.k \in {"label:#", "url:"}
HasCommitData(toks) == \E i \in 1..Len(toks) : toks[i].k = "message:"
HasNotes(toks) == \E i \in 1..Len(toks) : toks[i].k = "json-string"
Numbers(toks, k) == [i \in 1..Len(SelectSeqK(toks, k)) |-> SelectSeqK(toks, k)[i].n]

\* The tokens of the i-th commit record of a text: from its message up to the
\* next record's message.
MessagePositions(toks) == {p \in 1..Len(toks) : toks[p].k = "message:"}
RecordStart(toks, i) ==
  CHOOSE p \in MessagePositions(toks) :
    Cardinality({q \in MessagePositions(toks) : q < p}) = i - 1
RecordEnd(toks, i) ==
  IF i = Cardinality(MessagePositions(toks)) THEN Len(toks) ELSE RecordStart(toks, i + 1) - 1
RecordTokens(toks, i) == SubSeq(toks, RecordStart(toks, i), RecordEnd(toks, i))

(***************************************************************************)
(* Properties.                                                             *)
(***************************************************************************)
\* A fatal condition met before the write: wrong event type, empty commit
\* list, failed or absent completion, failed lookup, or a run ended by an
\* error that is not createRelease's own failure.
FatalBeforeWrite ==
  \/ eventName # "pull_request"
  \/ status["listCommits"] = "rejected"
  \/ status["listCommits"] = "resolved" /\ Len(commits) = 0
  \/ status["completion"] = "rejected"
  \/ completion # <<>> /\ ~completion[1].present
  \/ \E s \in Shas : lookup[s].state = "rejected"
  \/ Ended /\ error # "none" /\ status["createRelease"] # "rejected"

\* C1: createRelease is called at most once and no external call is issued
\* after it; a run that meets a fatal condition before the write never calls
\* createRelease, and no release exists.
C1_ReleaseIsLastStep ==
  /\ CallCount("createRelease", 0) <= 1
  /\ \A i \in 1..Len(calls) : calls[i][1] = "createRelease" => i = Len(calls)
  /\ FatalBeforeWrite => ~Called("createRelease") /\ ~released

C1_Witness ==
  /\ released
  /\ pc = "returned"
  /\ Len(commits) >= 2
  /\ CallCount(LookupApi, commits[2].sha) = 1

\* C2: the empty-commit error is raised if and only if the Commits variant is
\* selected and the fetched list is empty; it is never raised when
\* use-github-generated-notes is "true".
C2_EmptyCommitErrorOnlyOnCommitPath ==
  /\ useGithubGeneratedNotes = "true" => error # NoCommitsMessage
  /\ useGithubGeneratedNotes = "" =>
       (error = NoCommitsMessage <=> status["listCommits"] = "resolved" /\ Len(commits) = 0)

\* The completion carries no usable text: no completion object, or a first
\* choice whose content is empty or null.
NoUsableText(c) ==
  \/ ~c.present
  \/ Len(c.choices) > 0 /\ c.choices[1].content \in {"", Null}

\* C3: when the completion service returns no usable text the run reports a
\* failure and never calls createRelease.
C3_EmptyCompletionIsFatal ==
  (completion # <<>> /\ NoUsableText(completion[1])) =>
     /\ ~Called("createRelease")
     /\ Len(failures) = 1

\* C4: every failure raised inside run() is reported with setFailed exactly
\* once, and setFailed is called at most once per run.
C4_EveryFailureReportedOnce ==
  /\ Len(failures) <= 1
  /\ (Ended /\ error # "none") => Len(failures) = 1

SoftFailed ==
  status["getLatestRelease"] = "rejected" \/ status["generateReleaseNotes"] = "rejected"

\* C5: on the GeneratedNotes path (use-github-generated-notes "true") a
\* failed getLatestRelease is logged and generateReleaseNotes is still
\* requested, with no previous tag; a failed generateReleaseNotes is logged
\* and leaves the context empty; neither is reported as a failure, and the run
\* goes on to the completion service and, when it returns a completion, to
\* createRelease.
C5_NotesFailureIsSoft ==
  useGithubGeneratedNotes = "true" =>
    /\ status["getLatestRelease"] = "rejected" =>
         /\ Logged("No previous version found") \/ Logged("Failed to generate github notes")
         /\ Called("generateReleaseNotes")
         /\ genRequest = <<Null>>
    /\ status["generateReleaseNotes"] = "rejected" =>
         /\ Logged("Failed to generate github notes")
         /\ userPromptContext = <<>>
         /\ Called("completion")
    /\ (SoftFailed /\ status["completion"] \in {"idle", "pending"}) =>
         failures = <<>> /\ ~Ended
    /\ (SoftFailed /\ completion # <<>> /\ CompletionOutcome(completion[1]) = "createRelease") =>
         Called("createRelease")

\* C6: use-github-generated-notes false ("" or "false") takes the Commits path
\* (per-commit lookups, no getLatestRelease, no generateReleaseNotes, commit
\* data as payload); "true" takes the GeneratedNotes path (no lookup, no commit
\* data); the payload never holds both.
C6_VariantFollowsInput ==
  /\ useGithubGeneratedNotes \in {"", "false"} =>
       /\ ~Called("getLatestRelease") /\ ~Called("generateReleaseNotes")
       /\ sent # <<>> =>
            /\ HasCommitData(sent[1].user)
            /\ \A i \in 1..Len(commits) : CallCount(LookupApi, commits[i].sha) = 1
  /\ useGithubGeneratedNotes = "true" =>
       /\ ~Called(LookupApi)
       /\ sent # <<>> => ~HasCommitData(sent[1].user)
  /\ sent # <<>> => ~(HasCommitData(sent[1].user) /\ HasNotes(sent[1].user))

\* C7: on the Commits path the completion service is called only after every
\* lookup has answered, and the payload holds one record per commit, in the
\* order of the commit list, each with the PR references answered for its own
\* SHA, whatever the order the answers came in.
C7_JoinKeepsOrder ==
  (~SelectsGithubNotes /\ Called("completion")) =>
     /\ \A i \in 1..Len(commits) : lookup[commits[i].sha].state = "resolved"
     /\ Cardinality(MessagePositions(sent[1].user)) = Len(commits)
     /\ \A i \in 1..Len(commits) :
          LET rec == RecordTokens(sent[1].user, i)
              sha == commits[i].sha
          IN  /\ rec[1].n = commits[i].message
              /\ Numbers(rec, "label:#") =
                   [j \in 1..Len(lookup[sha].prs) |-> lookup[sha].prs[j].label]
              /\ \A j \in 1..Len(rec) :
                   IsPRMarker(rec[j]) => rec[j].n \in {10 * sha, 10 * sha + 1}

\* Two lookups answered in the reverse of the list order, both with PRs.
C7_Witness ==
  /\ Called("completion")
  /\ Len(commits) = 2
  /\ arrival = <<commits[2].sha, commits[1].sha>>
  /\ \A i \in 1..2 : Len(lookup[commits[i].sha].prs) > 0

\* C8: with use-mention-commits-prs off the text sent to the completion
\* service holds no PR label and no PR URL; with it on, on the Commits path,
\* every commit with an associated PR contributes a reference token.
C8_NoPRMarkersUnlessMentioned ==
  /\ (useMentionCommitsPrs = "" /\ sent # <<>>) =>
       \A i \in 1..Len(Rendered) : ~IsPRMarker(Rendered[i])
  /\ (Truthy(useMentionCommitsPrs) /\ ~SelectsGithubNotes /\ sent # <<>>) =>
       \A i \in 1..Len(commits) :
          Len(lookup[commits[i].sha].prs) > 0 =>
            \E j \in 1..Len(RecordTokens(sent[1].user, i)) :
               IsPRMarker(RecordTokens(sent[1].user, i)[j])

OncePerCall ==
  /\ \A a \in Apis : CallCount(a, 0) <= 1
  /\ \A s \in Shas : CallCount(LookupApi, s) <= 1
  /\ Len(calls) <= Cardinality(Apis) + Cardinality(Shas)

OneOutcome ==
  Ended => \/ released /\ failures = <<>> /\ error = "none"
           \/ ~released /\ error # "none"

\* C10: when every external call eventually answers, run() ends, with a
\* release and no failure or with a failure and no release, and no call is
\* issued twice (the lookup once per commit).
C10_TerminatesOnce == <>Ended /\ []OneOutcome /\ []OncePerCall

\* A run ended by a failed call that was not issued again.
C10_Witness ==
  /\ pc = "returned"
  /\ status["completion"] = "rejected"
  /\ CallCount("completion", 0) = 1
  /\ ~released

====
